---- MODULE Spec2Model ----
(***************************************************************************)
(* Model of the VCF ingestion pipeline of vcf_integration.py:              *)
(* VCFProcessor.parse_vcf_header, parse_vcf_line, normalize_variant_id,    *)
(* create_variant_node, process_vcf_batch, batch_insert_variants,          *)
(* batch_insert_genotype_relationships, process_vcf_file and               *)
(* _process_and_insert_batch, over a Neo4j store reached through MERGE     *)
(* queries.                                                                *)
(*                                                                         *)
(* Text is a sequence of one-character strings, so that the splitting,     *)
(* joining, stripping and number conversions of the Python code are        *)
(* computed, not assumed.                                                  *)
(***************************************************************************)
EXTENDS Integers, Sequences, FiniteSets, TLC

(***************************************************************************)
(* Bounds                                                                  *)
(***************************************************************************)
\* data lines of an input file
MaxLines == 3

\* largest batch_size
MaxBatch == 2

\* calls of process_vcf_file on one VCFProcessor
MaxRuns == 2

\* allele tokens of a genotype
MaxPloidy == 3

\* largest max_variants limit
MaxLimit == 2

(***************************************************************************)
(* Python text primitives                                                  *)
(***************************************************************************)
TAB == "\t"

NL == "\n"

Whitespace == {" ", TAB, NL}

Digits == <<"0", "1", "2", "3", "4", "5", "6", "7", "8", "9">>

IsDigitChar(c) == \E d \in 1..10 : Digits[d] = c

DigitValue(c) == (CHOOSE d \in 1..10 : Digits[d] = c) - 1

\* str.isdigit(): non-empty and every character a digit
IsDigit(s) == Len(s) > 0 /\ \A i \in 1..Len(s) : IsDigitChar(s[i])

\* value of a string of decimal digits
DigitsValue(s) ==
  LET RECURSIVE V(_, _)
      V(i, acc) == IF i > Len(s) THEN acc ELSE V(i + 1, acc * 10 + DigitValue(s[i]))
  IN V(1, 0)

\* int(text): an optional sign followed by decimal digits; anything else
\* raises ValueError
IntOk(s) ==
  \/ IsDigit(s)
  \/ Len(s) > 1 /\ s[1] \in {"-", "+"} /\ IsDigit(Tail(s))

IntValue(s) ==
  IF s[1] = "-" THEN 0 - DigitsValue(Tail(s))
  ELSE IF s[1] = "+" THEN DigitsValue(Tail(s))
  ELSE DigitsValue(s)

\* str(n) of a natural number
NatToStr(n) ==
  LET RECURSIVE S(_, _)
      S(k, acc) == IF k < 10 THEN <<Digits[k + 1]>> \o acc
                   ELSE S(k \div 10, <<Digits[(k % 10) + 1]>> \o acc)
  IN S(n, <<>>)

\* str(n) of an integer, as f"{position}" renders it
IntToStr(n) == IF n < 0 THEN <<"-">> \o NatToStr(0 - n) ELSE NatToStr(n)

\* text.split(sep): always at least one part, empty parts are kept.  Part k
\* lies between the (k - 1)-th and the k-th occurrence of sep.
Split(s, sep) ==
  LET at == {i \in 1..Len(s) : s[i] = sep}
      n == Cardinality(at)
      cut == [k \in 0..(n + 1) |->
                IF k = 0 THEN 0
                ELSE IF k = n + 1 THEN Len(s) + 1
                ELSE CHOOSE i \in at : Cardinality({j \in at : j <= i}) = k]
  IN [k \in 1..(n + 1) |-> SubSeq(s, cut[k - 1] + 1, cut[k] - 1)]

\* sep in text
Contains(s, c) == \E i \in 1..Len(s) : s[i] = c

\* text.split(sep, 1) of a text that contains sep: the parts around the
\* first occurrence
SplitOnce(s, sep) ==
  LET p == CHOOSE i \in 1..Len(s) : s[i] = sep /\ \A j \in 1..(i - 1) : s[j] # sep
  IN <<SubSeq(s, 1, p - 1), SubSeq(s, p + 1, Len(s))>>

\* sep.join(parts)
Join(parts, sep) ==
  LET RECURSIVE J(_, _)
      J(i, acc) == IF i > Len(parts) THEN acc
                   ELSE J(i + 1, IF i = 1 THEN parts[i] ELSE acc \o <<sep>> \o parts[i])
  IN J(1, <<>>)

\* text.strip(): whitespace removed at both ends
Strip(s) ==
  LET keep == {i \in 1..Len(s) : s[i] \notin Whitespace}
  IN IF keep = {} THEN <<>>
     ELSE LET lo == CHOOSE i \in keep : \A j \in keep : i <= j
              hi == CHOOSE i \in keep : \A j \in keep : j <= i
          IN SubSeq(s, lo, hi)

\* text.replace(old, new) for single characters
Replace(s, old, new) == [i \in 1..Len(s) |-> IF s[i] = old THEN new ELSE s[i]]

\* text.startswith(prefix)
StartsWith(s, prefix) ==
  Len(s) >= Len(prefix) /\ SubSeq(s, 1, Len(prefix)) = prefix

(***************************************************************************)
(* Python values                                                           *)
(***************************************************************************)
\* None
None == [none |-> TRUE]

\* float(text) for the decimal notation [sign]digits[.digits]; any other
\* text raises ValueError.  A float is kept as the integer num scaled by
\* 10^-scale, trailing zeros of the fraction removed.
FloatParts(s) ==
  LET body == IF Len(s) > 0 /\ s[1] \in {"-", "+"} THEN Tail(s) ELSE s
  IN Split(body, ".")

FloatOk(s) ==
  LET p == FloatParts(s)
  IN /\ Len(p) \in {1, 2}
     /\ IsDigit(p[1])
     /\ Len(p) = 2 => (p[2] = <<>> \/ IsDigit(p[2]))

DropTrailingZeros(s) ==
  LET nz == {i \in 1..Len(s) : s[i] # "0"}
  IN IF nz = {} THEN <<>>
     ELSE SubSeq(s, 1, CHOOSE i \in nz : \A j \in nz : j <= i)

FloatValue(s) ==
  LET p == FloatParts(s)
      frac == IF Len(p) = 2 THEN DropTrailingZeros(p[2]) ELSE <<>>
      mag == DigitsValue(p[1] \o frac)
  IN [num |-> IF s[1] = "-" THEN 0 - mag ELSE mag, scale |-> Len(frac)]

\* dict, as the ordered sequence of its items: d[k] = v replaces the value
\* of an existing key in place and appends a new key at the end
DictHas(d, k) == \E i \in 1..Len(d) : d[i].k = k

DictGet(d, k) == d[CHOOSE i \in 1..Len(d) : d[i].k = k].v

DictPut(d, k, v) ==
  IF DictHas(d, k)
  THEN [i \in 1..Len(d) |-> IF d[i].k = k THEN [k |-> k, v |-> v] ELSE d[i]]
  ELSE Append(d, [k |-> k, v |-> v])

(***************************************************************************)
(* VCFProcessor.parse_vcf_header                                           *)
(***************************************************************************)
HashHash == <<"#", "#">>

HashChrom == <<"#", "C", "H", "R", "O", "M">>

\* The sample names of the first '#CHROM' line that is reached: the loop
\* passes over '##' lines and over any other line, and stops at the first
\* '#CHROM' line.  No such line leaves samples = [].  The metadata dict the
\* function also returns is not used by process_vcf_file and is left out.
parse_vcf_header(lines) ==
  LET hdr == {i \in 1..Len(lines) :
                ~StartsWith(lines[i], HashHash) /\ StartsWith(lines[i], HashChrom)}
  IN IF hdr = {} THEN <<>>
     ELSE LET h == CHOOSE i \in hdr : \A j \in hdr : i <= j
              fields == Split(Strip(lines[h]), TAB)
          IN IF Len(fields) > 9 THEN SubSeq(fields, 10, Len(fields)) ELSE <<>>

(***************************************************************************)
(* VCFProcessor.parse_vcf_line                                             *)
(***************************************************************************)
Dot == <<".">>

LineFields(line) == Split(Strip(line), TAB)

\* the INFO dict: key=value items map to the value text, bare items to True
ParseInfo(field) ==
  LET items == Split(field, ";")
      RECURSIVE F(_, _)
      F(i, d) ==
        IF i > Len(items) THEN d
        ELSE IF Contains(items[i], "=")
             THEN F(i + 1, DictPut(d, SplitOnce(items[i], "=")[1],
                                   [s |-> SplitOnce(items[i], "=")[2]]))
             ELSE F(i + 1, DictPut(d, items[i], [b |-> TRUE]))
  IN IF field = Dot THEN <<>> ELSE F(1, <<>>)

\* a fault of ParseGenotypes: the sample columns are counted from FORMAT
ParseGenotypesShifted(fields, sample_names) ==
  LET RECURSIVE F(_, _)
      F(i, d) ==
        IF i > Len(sample_names) THEN d
        ELSE IF i + 8 <= Len(fields)
             THEN F(i + 1, DictPut(d, sample_names[i], Split(fields[i + 8], ":")[1]))
             ELSE F(i + 1, d)
  IN IF Len(fields) > 9 THEN F(1, <<>>) ELSE <<>>

\* the genotypes dict: sample i takes the first ':' subfield of column i + 9
ParseGenotypes(fields, sample_names) ==
  LET RECURSIVE F(_, _)
      F(i, d) ==
        IF i > Len(sample_names) THEN d
        ELSE IF i + 9 <= Len(fields)
             THEN F(i + 1, DictPut(d, sample_names[i], Split(fields[i + 9], ":")[1]))
             ELSE F(i + 1, d)
  IN IF Len(fields) > 9 THEN F(1, <<>>) ELSE <<>>

\* "None": fewer than 8 fields; "raise": int(fields[1]) or float(fields[5])
\* raises ValueError; "ok": a VCFVariant is returned
\* a fault of FieldsOutcome: a record of exactly eight fields is rejected
FieldsOutcomeNine(fields) ==
  IF Len(fields) <= 8 THEN "None"
  ELSE IF ~IntOk(fields[2]) THEN "raise"
  ELSE IF fields[6] # Dot /\ ~FloatOk(fields[6]) THEN "raise"
  ELSE "ok"

FieldsOutcome(fields) ==
  IF Len(fields) < 8 THEN "None"
  ELSE IF ~IntOk(fields[2]) THEN "raise"
  ELSE IF fields[6] # Dot /\ ~FloatOk(fields[6]) THEN "raise"
  ELSE "ok"

ParseOutcome(line) == FieldsOutcome(LineFields(line))

\* the VCFVariant of a line whose ParseOutcome is "ok"
FieldsVariant(fields, sample_names) ==
  LET chrom == fields[1]
      pos == IntValue(fields[2])
  IN [chromosome |-> chrom,
      position |-> pos,
      variant_id |-> IF fields[3] # Dot THEN fields[3]
                     ELSE chrom \o <<"_">> \o IntToStr(pos),
      ref_allele |-> fields[4],
      alt_alleles |-> IF fields[5] # Dot THEN Split(fields[5], ",") ELSE <<>>,
      quality |-> IF fields[6] # Dot THEN FloatValue(fields[6]) ELSE None,
      filter_status |-> fields[7],
      info |-> ParseInfo(fields[8]),
      genotypes |-> ParseGenotypes(fields, sample_names)]

parse_vcf_line(line, sample_names) == FieldsVariant(LineFields(line), sample_names)

(***************************************************************************)
(* VCFProcessor.normalize_variant_id                                       *)
(***************************************************************************)
KeyMaxLen == 100

DigestLen == 16

HexDigits == <<"0", "1", "2", "3", "4", "5", "6", "7", "8", "9",
               "a", "b", "c", "d", "e", "f">>

CodeTable == <<"A", "C", "G", "T", "N", "_", ",", "0", "1", "2", "3", "4", "5",
               "6", "7", "8", "9", "c", "h", "r", "R", "E", "F">>

CharCode(c) == IF \E i \in 1..Len(CodeTable) : CodeTable[i] = c
               THEN CHOOSE i \in 1..Len(CodeTable) : CodeTable[i] = c
               ELSE 0

\* hashlib.md5(text.encode()).hexdigest()[:16].  MD5 is library code; the
\* model keeps what normalize_variant_id relies on, a fixed function of the
\* text that renders as DigestLen hexadecimal characters, and stands a
\* position-weighted checksum in for the digest itself.
Md5Hex16(text) ==
  LET RECURSIVE Sum(_, _)
      Sum(lo, hi) == IF lo > hi THEN 0
                     ELSE IF lo = hi THEN (lo * (CharCode(text[lo]) + 1)) % 65536
                     ELSE (Sum(lo, (lo + hi) \div 2) + Sum(((lo + hi) \div 2) + 1, hi)) % 65536
      h == (7 + Sum(1, Len(text))) % 65536
      RECURSIVE Hex(_, _, _)
      Hex(n, k, acc) == IF k = 0 THEN acc
                        ELSE Hex(n \div 16, k - 1, <<HexDigits[(n % 16) + 1]>> \o acc)
  IN Hex(h, DigestLen, <<>>)

\* a fault of NormalizedText: the ref allele left out of the key
NormalizedTextNoRef(variant) ==
  LET alt_string == IF variant.alt_alleles # <<>>
                    THEN Join(variant.alt_alleles, "_")
                    ELSE <<"R", "E", "F">>
  IN variant.chromosome \o <<"_">> \o IntToStr(variant.position) \o <<"_">>
       \o alt_string

NormalizedText(variant) ==
  LET alt_string == IF variant.alt_alleles # <<>>
                    THEN Join(variant.alt_alleles, "_")
                    ELSE <<"R", "E", "F">>
  IN variant.chromosome \o <<"_">> \o IntToStr(variant.position) \o <<"_">>
       \o variant.ref_allele \o <<"_">> \o alt_string

\* a fault of normalize_variant_id: a text of exactly KeyMaxLen characters
\* is replaced by its digest too
normalize_variant_id_early(variant) ==
  LET normalized_id == NormalizedText(variant)
  IN IF Len(normalized_id) >= KeyMaxLen
     THEN <<"V", "A", "R", "_">> \o Md5Hex16(normalized_id)
     ELSE normalized_id

normalize_variant_id(variant) ==
  LET normalized_id == NormalizedText(variant)
  IN IF Len(normalized_id) > KeyMaxLen
     THEN <<"V", "A", "R", "_">> \o Md5Hex16(normalized_id)
     ELSE normalized_id

(***************************************************************************)
(* VCFProcessor.create_variant_node                                        *)
(***************************************************************************)
KeyAF == <<"A", "F">>

KeyANN == <<"A", "N", "N">>

\* a fault of VariantType: "INDEL" only when every alt allele differs in
\* length from the ref allele
VariantTypeAll(variant) ==
  IF \A i \in 1..Len(variant.alt_alleles) :
       Len(variant.alt_alleles[i]) # Len(variant.ref_allele)
  THEN "INDEL" ELSE "SNP"

\* "INDEL" when some alt allele differs in length from the ref allele
VariantType(variant) ==
  IF \E i \in 1..Len(variant.alt_alleles) :
       Len(variant.alt_alleles[i]) # Len(variant.ref_allele)
  THEN "INDEL" ELSE "SNP"

\* info['AF'].split(',') and info.get('ANN', '').split('|')[1] are outside
\* any try block or raise an exception the try block does not catch: a bare
\* AF or ANN flag (True has no split) raises AttributeError, an ANN value
\* without '|' raises IndexError
NodeRaises(variant) ==
  \/ DictHas(variant.info, KeyAF) /\ DictGet(variant.info, KeyAF) = [b |-> TRUE]
  \/ /\ DictHas(variant.info, KeyANN)
     /\ \/ DictGet(variant.info, KeyANN) = [b |-> TRUE]
        \/ Len(Split(DictGet(variant.info, KeyANN).s, "|")) < 2

AlleleFreq(variant) ==
  IF DictHas(variant.info, KeyAF)
  THEN LET first == Split(DictGet(variant.info, KeyAF).s, ",")[1]
       IN IF FloatOk(first) THEN FloatValue(first) ELSE None
  ELSE None

FunctionalImpact(variant) ==
  IF DictHas(variant.info, KeyANN)
  THEN [s |-> Split(DictGet(variant.info, KeyANN).s, "|")[2]]
  ELSE None

\* the node dict of a variant for which NodeRaises is false
create_variant_node(variant) ==
  [variant_id |-> normalize_variant_id(variant),
   original_id |-> variant.variant_id,
   chromosome |-> variant.chromosome,
   position |-> variant.position,
   ref_allele |-> variant.ref_allele,
   alt_allele |-> IF variant.alt_alleles # <<>>
                  THEN Join(variant.alt_alleles, ",") ELSE <<>>,
   variant_type |-> VariantType(variant),
   quality_score |-> variant.quality,
   filter_status |-> variant.filter_status,
   allele_frequency |-> AlleleFreq(variant),
   functional_impact |-> FunctionalImpact(variant)]

(***************************************************************************)
(* VCFProcessor.process_vcf_batch                                          *)
(***************************************************************************)
\* "if genotype and genotype != './.' and genotype != '.'": the genotypes
\* for which a relationship is generated
GenotypeCalled(genotype) ==
  /\ genotype # <<>>
  /\ genotype # <<".", "/", ".">>
  /\ genotype # <<".">>

\* the allele tokens: '|' replaced by '/', then split on '/'
GenotypeAlleles(genotype) == Split(Replace(genotype, "|", "/"), "/")

AlleleCounts(allele) == IsDigit(allele) /\ DigitsValue(allele) > 0

\* a fault of Dosage: the count stops at the two alleles of a diploid
DosageDiploid(genotype) ==
  LET alleles == GenotypeAlleles(genotype)
      n == Cardinality({i \in 1..Len(alleles) : AlleleCounts(alleles[i])})
  IN IF n > 2 THEN 2 ELSE n

\* number of allele tokens that are digits and greater than zero
Dosage(genotype) ==
  LET alleles == GenotypeAlleles(genotype)
  IN Cardinality({i \in 1..Len(alleles) : AlleleCounts(alleles[i])})

\* the relationships of one variant, in the order of its genotypes dict
VariantRels(variant) ==
  LET g == variant.genotypes
      RECURSIVE F(_, _)
      F(i, acc) ==
        IF i > Len(g) THEN acc
        ELSE IF GenotypeCalled(g[i].v)
             THEN F(i + 1, Append(acc, [from_id |-> g[i].k,
                                        to_id |-> normalize_variant_id(variant),
                                        genotype |-> g[i].v,
                                        dosage |-> Dosage(g[i].v),
                                        quality_score |-> variant.quality]))
             ELSE F(i + 1, acc)
  IN F(1, <<>>)

\* some create_variant_node call of the batch raises
BatchRaises(variants) == \E i \in 1..Len(variants) : NodeRaises(variants[i])

\* a fault of BatchNodes: the nodes are built from the last variant to the
\* first
BatchNodesReversed(variants) ==
  [i \in 1..Len(variants) |-> create_variant_node(variants[Len(variants) + 1 - i])]

BatchNodes(variants) == [i \in 1..Len(variants) |-> create_variant_node(variants[i])]

BatchRels(variants) ==
  LET RECURSIVE F(_, _)
      F(i, acc) == IF i > Len(variants) THEN acc
                   ELSE F(i + 1, acc \o VariantRels(variants[i]))
  IN F(1, <<>>)

(***************************************************************************)
(* The Neo4j store, as the two Cypher queries use it                       *)
(***************************************************************************)
\* SET v += map: the properties of map are written over those of v
MapUpdate(old, new) ==
  [f \in (DOMAIN old) \cup (DOMAIN new) |-> IF f \in DOMAIN new THEN new[f] ELSE old[f]]

\* MERGE (v:Variant {variant_id: variant.variant_id}) SET v += variant, for
\* one row: every node with that variant_id is matched and updated; when
\* there is none, one is created.  A node is identified by its index.
\* a fault of MergeVariant: CREATE in place of MERGE
CreateVariant(nodes, variant) ==
  Append(nodes, MapUpdate([variant_id |-> variant.variant_id], variant))

MergeVariant(nodes, variant) ==
  IF \E i \in 1..Len(nodes) : nodes[i].variant_id = variant.variant_id
  THEN [i \in 1..Len(nodes) |->
          IF nodes[i].variant_id = variant.variant_id
          THEN MapUpdate(nodes[i], variant) ELSE nodes[i]]
  ELSE Append(nodes, MapUpdate([variant_id |-> variant.variant_id], variant))

\* UNWIND $variants as variant MERGE ... SET ..., row after row
MergeVariants(nodes, variant_nodes) ==
  LET RECURSIVE F(_, _)
      F(i, acc) == IF i > Len(variant_nodes) THEN acc
                   ELSE F(i + 1, MergeVariant(acc, variant_nodes[i]))
  IN F(1, nodes)

\* MERGE (g)-[r:HAS_VARIANT]->(v) SET r.genotype, r.dosage, r.quality_score
\* for one matched pair (g, v): every such relationship is updated; when
\* there is none, one is created
\* a fault of MergeEdge: CREATE in place of MERGE
CreateEdge(edges, g, v, rel) ==
  Append(edges, [from |-> g, to |-> v, genotype |-> rel.genotype,
                 dosage |-> rel.dosage, quality_score |-> rel.quality_score])

MergeEdge(edges, g, v, rel) ==
  IF \E i \in 1..Len(edges) : edges[i].from = g /\ edges[i].to = v
  THEN [i \in 1..Len(edges) |->
          IF edges[i].from = g /\ edges[i].to = v
          THEN [edges[i] EXCEPT !.genotype = rel.genotype,
                                !.dosage = rel.dosage,
                                !.quality_score = rel.quality_score]
          ELSE edges[i]]
  ELSE Append(edges, [from |-> g, to |-> v, genotype |-> rel.genotype,
                      dosage |-> rel.dosage, quality_score |-> rel.quality_score])

\* one row of UNWIND $relationships: MATCH (g:Germplasm ...) MATCH
\* (v:Variant ...) keep the pairs that exist in the store; a row without a
\* pair writes nothing
MergeRel(edges, nodes, germ, rel) ==
  LET vs == {i \in 1..Len(nodes) : nodes[i].variant_id = rel.to_id}
      RECURSIVE F(_, _)
      F(todo, acc) ==
        IF todo = {} THEN acc
        ELSE LET v == CHOOSE i \in todo : \A j \in todo : i <= j
             IN F(todo \ {v}, MergeEdge(acc, rel.from_id, v, rel))
  IN IF rel.from_id \in germ THEN F(vs, edges) ELSE edges

MergeRels(edges, nodes, germ, relationships) ==
  LET RECURSIVE F(_, _)
      F(i, acc) == IF i > Len(relationships) THEN acc
                   ELSE F(i + 1, MergeRel(acc, nodes, germ, relationships[i]))
  IN F(1, edges)

\* batch_insert_variants: nothing is sent for an empty list; an exception
\* of session.run (ok = FALSE) leaves the store as it was
batch_insert_variants(nodes, variant_nodes, ok) ==
  IF variant_nodes = <<>> \/ ~ok THEN nodes ELSE MergeVariants(nodes, variant_nodes)

\* batch_insert_genotype_relationships: nothing is sent for an empty list;
\* an exception of session.run is caught and logged
batch_insert_genotype_relationships(edges, nodes, germ, relationships, ok) ==
  IF relationships = <<>> \/ ~ok THEN edges
  ELSE MergeRels(edges, nodes, germ, relationships)

(***************************************************************************)
(* State                                                                   *)
(***************************************************************************)
VARIABLES
  file,           \* the lines of the VCF file, each ending in a newline
  batch_size,     \* VCFProcessor.batch_size
  max_variants,   \* the max_variants argument: None or [n |-> limit]
  germplasm,      \* germplasm_id of the Germplasm nodes of the store
  faulty,         \* whether session.run may raise (store unavailable)
  pc,             \* "idle", "streaming", "draining", "done" or "failed"
  run_no,         \* number of process_vcf_file calls started
  samples,        \* the sample names parse_vcf_header returned
  line_num,       \* number of lines the loop has consumed
  variant_batch,  \* the local list variant_batch
  stats,          \* VCFProcessor.stats
  store_nodes,    \* the Variant nodes of the store
  store_edges,    \* the HAS_VARIANT relationships of the store
  flush_log,      \* history: the calls of _process_and_insert_batch
  store_log,      \* history: the queries sent to the store
  first_store,    \* history: the store when the first run returned
  stop_requested  \* whether the caller of process_vcf_file wants it to stop

vars == <<file, batch_size, max_variants, germplasm, faulty, pc, run_no, samples,
          line_num, variant_batch, stats, store_nodes, store_edges, flush_log,
          store_log, first_store, stop_requested>>

\* ProcessingStats()
ProcessingStats ==
  [total_variants |-> 0, processed_variants |-> 0, skipped_variants |-> 0,
   total_genotypes |-> 0, processing_time |-> 0]

\* the outcomes of one session.run: TRUE returns, FALSE raises
StoreOutcomes == IF faulty THEN BOOLEAN ELSE {TRUE}

VariantIds(nodes) == {nodes[i].variant_id : i \in 1..Len(nodes)}

(***************************************************************************)
(* VCFProcessor._process_and_insert_batch                                  *)
(***************************************************************************)
\* What a call on batch leaves behind, session.run returning or raising as
\* nodes_ok and edges_ok say.  process_vcf_batch raising, or the node query
\* raising, ends the call before the statistics are updated; the
\* relationship query raising is caught inside
\* batch_insert_genotype_relationships, which sends no query for an empty
\* list.
FlushEntry(batch, outcome) == [run |-> run_no, variants |-> batch, outcome |-> outcome]

\* a fault of InsertBatch: total_genotypes counts the relationships written
InsertBatchCountsWritten(batch, variant_nodes, genotype_relationships, nodes1, nodes_ok, edges_ok) ==
  LET flush == Len(flush_log) + 1
      log1 == Append(store_log,
                     [op |-> "nodes", flush |-> flush, rows |-> variant_nodes,
                      present |-> VariantIds(store_nodes), ok |-> nodes_ok])
  IN IF ~nodes_ok
     THEN [raised |-> TRUE, nodes |-> store_nodes, edges |-> store_edges,
           stats |-> stats, store_log |-> log1,
           flush_log |-> Append(flush_log, FlushEntry(batch, "raise_nodes"))]
     ELSE [raised |-> FALSE,
           nodes |-> nodes1,
           edges |-> batch_insert_genotype_relationships(
                       store_edges, nodes1, germplasm, genotype_relationships, edges_ok),
           stats |-> [stats EXCEPT
                        !.processed_variants = @ + Len(variant_nodes),
                        !.total_genotypes = @ +
                          IF edges_ok
                          THEN Len(SelectSeq(genotype_relationships,
                                             LAMBDA r : r.from_id \in germplasm))
                          ELSE 0],
           store_log |-> IF genotype_relationships = <<>> THEN log1
                         ELSE Append(log1,
                                     [op |-> "edges", flush |-> flush,
                                      rows |-> genotype_relationships,
                                      present |-> VariantIds(nodes1), ok |-> edges_ok]),
           flush_log |-> Append(flush_log,
                                FlushEntry(batch,
                                           IF edges_ok \/ genotype_relationships = <<>>
                                           THEN "ok" ELSE "edges_failed"))]

\* the two queries, the node query first, and the statistics
InsertBatch(batch, variant_nodes, genotype_relationships, nodes1, nodes_ok, edges_ok) ==
  LET flush == Len(flush_log) + 1
      log1 == Append(store_log,
                     [op |-> "nodes", flush |-> flush, rows |-> variant_nodes,
                      present |-> VariantIds(store_nodes), ok |-> nodes_ok])
  IN IF ~nodes_ok
     THEN [raised |-> TRUE, nodes |-> store_nodes, edges |-> store_edges,
           stats |-> stats, store_log |-> log1,
           flush_log |-> Append(flush_log, FlushEntry(batch, "raise_nodes"))]
     ELSE [raised |-> FALSE,
           nodes |-> nodes1,
           edges |-> batch_insert_genotype_relationships(
                       store_edges, nodes1, germplasm, genotype_relationships, edges_ok),
           stats |-> [stats EXCEPT
                        !.processed_variants = @ + Len(variant_nodes),
                        !.total_genotypes = @ + Len(genotype_relationships)],
           store_log |-> IF genotype_relationships = <<>> THEN log1
                         ELSE Append(log1,
                                     [op |-> "edges", flush |-> flush,
                                      rows |-> genotype_relationships,
                                      present |-> VariantIds(nodes1), ok |-> edges_ok]),
           flush_log |-> Append(flush_log,
                                FlushEntry(batch,
                                           IF edges_ok \/ genotype_relationships = <<>>
                                           THEN "ok" ELSE "edges_failed"))]

\* a fault of ProcessedBatch: the relationship query runs against the store
\* as it was before the node query
EdgesFirst(batch, variant_nodes, genotype_relationships, nodes_ok, edges_ok) ==
  InsertBatch(batch, variant_nodes, genotype_relationships, store_nodes,
              nodes_ok, edges_ok)

ProcessedBatch(batch, variant_nodes, genotype_relationships, nodes_ok, edges_ok) ==
  InsertBatch(batch, variant_nodes, genotype_relationships,
              batch_insert_variants(store_nodes, variant_nodes, nodes_ok),
              nodes_ok, edges_ok)

\* a fault of Flush: the batch is handed to a background worker and the call
\* returns before anything is written
FlushInBackground(batch, nodes_ok, edges_ok) ==
  [raised |-> FALSE, nodes |-> store_nodes, edges |-> store_edges,
   stats |-> stats, store_log |-> store_log,
   flush_log |-> Append(flush_log, FlushEntry(batch, "ok"))]

Flush(batch, nodes_ok, edges_ok) ==
  IF BatchRaises(batch)
  THEN [raised |-> TRUE, nodes |-> store_nodes, edges |-> store_edges,
        stats |-> stats, store_log |-> store_log,
        flush_log |-> Append(flush_log, FlushEntry(batch, "raise_build"))]
  ELSE ProcessedBatch(batch, BatchNodes(batch), BatchRels(batch), nodes_ok, edges_ok)

(***************************************************************************)
(* VCFProcessor.process_vcf_file                                           *)
(***************************************************************************)
Hash == <<"#">>

\* a fault of BatchFull: the batch is flushed one record late
BatchFullLate(batch) == Len(batch) > batch_size

\* "if len(variant_batch) >= self.batch_size"
BatchFull(batch) == Len(batch) >= batch_size

\* a fault of LimitReached: the loop stops one record late
LimitReachedLate(total) ==
  max_variants # None /\ max_variants.n # 0 /\ total > max_variants.n

\* a fault of LimitReached: a limit of 0 is taken as a limit
LimitReachedZero(total) ==
  max_variants # None /\ total >= max_variants.n

\* "if max_variants and self.stats.total_variants >= max_variants"
LimitReached(total) ==
  max_variants # None /\ max_variants.n # 0 /\ total >= max_variants.n

\* a fault of StartRun: the statistics of the previous call are kept
StartRunKeepStats ==
  /\ pc \in {"idle", "done", "failed"}
  /\ run_no < MaxRuns
  /\ run_no' = run_no + 1
  /\ samples' = parse_vcf_header(file)
  /\ variant_batch' = <<>>
  /\ line_num' = 0
  /\ pc' = "streaming"
  /\ UNCHANGED <<file, batch_size, max_variants, germplasm, faulty, stats, store_nodes,
                 store_edges, flush_log, store_log, first_store, stop_requested>>

\* the call up to the loop: the header is parsed, the statistics are reset,
\* the batch is empty
StartRun ==
  /\ pc \in {"idle", "done", "failed"}
  /\ run_no < MaxRuns
  /\ run_no' = run_no + 1
  /\ samples' = parse_vcf_header(file)
  /\ stats' = ProcessingStats
  /\ variant_batch' = <<>>
  /\ line_num' = 0
  /\ pc' = "streaming"
  /\ UNCHANGED <<file, batch_size, max_variants, germplasm, faulty, store_nodes,
                 store_edges, flush_log, store_log, first_store, stop_requested>>

\* one iteration of "for line_num, line in enumerate(f)": a comment line
\* and a line parse_vcf_line returns None for are passed over, an exception
\* of parse_vcf_line or of the flush ends the call, an accepted record is
\* appended and counted, the full batch is flushed and the limit is checked
ReadLine ==
  /\ pc = "streaming"
  /\ line_num < Len(file)
  /\ line_num' = line_num + 1
  /\ LET line == file[line_num + 1]
     IN IF StartsWith(line, Hash)
        THEN UNCHANGED <<pc, variant_batch, stats, store_nodes, store_edges,
                         flush_log, store_log>>
        ELSE \E outcome \in {ParseOutcome(line)} :
          IF outcome = "raise"
          THEN /\ pc' = "failed"
               /\ variant_batch' = <<>>
               /\ UNCHANGED <<stats, store_nodes, store_edges, flush_log, store_log>>
          ELSE IF outcome = "None"
          THEN /\ stats' = [stats EXCEPT !.skipped_variants = @ + 1]
               /\ UNCHANGED <<pc, variant_batch, store_nodes, store_edges,
                              flush_log, store_log>>
          ELSE
            LET batch == Append(variant_batch, parse_vcf_line(line, samples))
                total == stats.total_variants + 1
            IN IF BatchFull(batch)
               THEN \E nodes_ok \in StoreOutcomes, edges_ok \in StoreOutcomes :
                      \E r \in {Flush(batch, nodes_ok, edges_ok)} :
                        /\ store_nodes' = r.nodes
                        /\ store_edges' = r.edges
                        /\ flush_log' = r.flush_log
                        /\ store_log' = r.store_log
                        /\ stats' = [r.stats EXCEPT !.total_variants = total]
                        /\ variant_batch' = <<>>
                        /\ pc' = IF r.raised THEN "failed"
                                 ELSE IF LimitReached(total) THEN "draining"
                                 ELSE "streaming"
               ELSE /\ variant_batch' = batch
                    /\ stats' = [stats EXCEPT !.total_variants = total]
                    /\ pc' = IF LimitReached(total) THEN "draining" ELSE "streaming"
                    /\ UNCHANGED <<store_nodes, store_edges, flush_log, store_log>>
  /\ UNCHANGED <<file, batch_size, max_variants, germplasm, faulty, run_no, samples,
                 first_store, stop_requested>>

\* after the loop: "if variant_batch:" the remaining variants are flushed,
\* and the statistics are returned.  The local list variant_batch ends with
\* the call, here and when the call ends by an exception.
Finish ==
  /\ \/ pc = "draining"
     \/ pc = "streaming" /\ line_num = Len(file)
  /\ IF variant_batch # <<>>
     THEN \E nodes_ok \in StoreOutcomes, edges_ok \in StoreOutcomes :
          \E r \in {Flush(variant_batch, nodes_ok, edges_ok)} :
               /\ store_nodes' = r.nodes
               /\ store_edges' = r.edges
               /\ flush_log' = r.flush_log
               /\ store_log' = r.store_log
               /\ stats' = r.stats
               /\ pc' = IF r.raised THEN "failed" ELSE "done"
     ELSE /\ pc' = "done"
          /\ UNCHANGED <<stats, store_nodes, store_edges, flush_log, store_log>>
  /\ first_store' = IF run_no = 1 /\ pc' = "done"
                    THEN [nodes |-> store_nodes', edges |-> store_edges']
                    ELSE first_store
  /\ variant_batch' = <<>>
  /\ UNCHANGED <<file, batch_size, max_variants, germplasm, faulty, run_no, samples,
                 line_num, stop_requested>>

\* what the call hands to its caller: "return self.stats" when it returns,
\* nothing when it ends by an exception, which process_vcf_data catches and
\* logs before it goes on to the next file
Returned == IF pc = "done" THEN stats ELSE None

Next == StartRun \/ ReadLine \/ Finish

\* the caller wants the running call to stop.  process_vcf_file takes the
\* arguments vcf_file and max_variants only and reads no flag, event or
\* signal in its loop: the wish changes nothing the call can see.
RequestStop ==
  /\ pc = "streaming"
  /\ ~stop_requested
  /\ stop_requested' = TRUE
  /\ UNCHANGED <<file, batch_size, max_variants, germplasm, faulty, pc, run_no, samples,
                 line_num, variant_batch, stats, store_nodes, store_edges, flush_log,
                 store_log, first_store>>

\* the calls of process_vcf_file and the stop requests of their caller
NextWithStop == Next \/ RequestStop

(***************************************************************************)
(* Input files                                                             *)
(***************************************************************************)
SeqsUpTo(S, n) == UNION {[1..k -> S] : k \in 0..n}

\* "##source=x"
LineMeta ==
  <<"#", "#", "s", "o", "u", "r", "c", "e", "=", "x", NL>>

\* the column header line, samples S1 and S2
LineHeader ==
  <<"#", "C", "H", "R", "O", "M", TAB, "P", "O", "S", TAB, "I", "D", TAB,
    "R", "E", "F", TAB, "A", "L", "T", TAB, "Q", "U", "A", "L", TAB, "F",
    "I", "L", "T", "E", "R", TAB, "I", "N", "F", "O", TAB, "F", "O", "R",
    "M", "A", "T", TAB, "S", "1", TAB, "S", "2", NL>>

\* a SNP called in both samples
LineSnp ==
  <<"c", "h", "r", "1", TAB, "1", "0", "0", TAB, ".", TAB, "A", TAB, "G",
    TAB, "3", "0", TAB, "P", "A", "S", "S", TAB, ".", TAB, "G", "T", TAB,
    "0", "/", "1", TAB, "1", "/", "1", NL>>

\* the same variant seen again: other id, quality, filter, annotation and
\* genotypes, a phased call with a second subfield and a missing call
LineSnpAgain ==
  <<"c", "h", "r", "1", TAB, "1", "0", "0", TAB, "r", "s", "1", TAB, "A",
    TAB, "G", TAB, ".", TAB, "q", "1", "0", TAB, "A", "F", "=", "0", ".",
    "5", TAB, "G", "T", ":", "D", "P", TAB, "1", "|", "1", ":", "9", TAB,
    ".", "/", ".", ":", "0", NL>>

\* a multi-allelic indel of exactly eight fields: no genotype columns
LineIndel ==
  <<"c", "h", "r", "2", TAB, "7", TAB, ".", TAB, "A", "T", TAB, "A", ",",
    "A", "T", "T", TAB, "5", "0", ".", "5", TAB, "P", "A", "S", "S", TAB,
    "D", "P", "=", "5", ";", "D", "B", NL>>

\* a data line of four fields
LineShort ==
  <<"c", "h", "r", "1", TAB, "1", "0", "0", TAB, ".", TAB, "A", NL>>

\* a comment line among the data lines
LineComment ==
  <<"#", "n", "o", "t", "e", NL>>

S1 == <<"S", "1">>

S2 == <<"S", "2">>

HeaderLines == <<LineMeta, LineHeader>>

\* well-formed records, short records and comments
DataLines == {LineSnp, LineSnpAgain, LineIndel, LineShort, LineComment}

Files == {HeaderLines \o data : data \in SeqsUpTo(DataLines, MaxLines)}

\* a record at chr1:100 with the given ref allele, ALT field and genotype
\* columns of S1 and S2
RecordLine(ref, alt, gt1, gt2) ==
  Join(<<<<"c", "h", "r", "1">>, <<"1", "0", "0">>, Dot, ref, alt, <<"3", "0">>,
         <<"P", "A", "S", "S">>, Dot, <<"G", "T">>, gt1, gt2>>, TAB) \o <<NL>>

\* genotypes of 1..MaxPloidy allele tokens, unphased ('/') or phased ('|'):
\* called, multi-digit, missing and non-numeric tokens
AlleleTokens == {<<"0">>, <<"1">>, <<"2">>, <<"1", "0">>, <<".">>, <<"x">>}

Genotypes ==
  UNION {{Join(t, sep) : t \in [1..k -> AlleleTokens], sep \in {"/", "|"}} :
           k \in 1..MaxPloidy}

GenotypeFiles ==
  {<<LineHeader, RecordLine(<<"A">>, <<"G">>, g, <<"0", "/", "0">>)>> : g \in Genotypes}

\* ref alleles and ALT fields, among them texts that hold the '_' the key is
\* joined with and the text 'REF' the key uses for no alt allele
RefTexts == {<<"A">>, <<"A", "_", "C">>}

AltTexts == {<<"G">>, <<"C">>, <<"C", ",", "G">>, <<"C", "_", "G">>, Dot,
             <<"R", "E", "F">>}

AlleleFiles ==
  {<<LineHeader, RecordLine(r1, a1, <<"0", "/", "1">>, <<"1", "/", "1">>),
     RecordLine(r2, a2, <<"0", "/", "1">>, <<"1", "/", "1">>)>> :
     r1 \in RefTexts, a1 \in AltTexts, r2 \in RefTexts, a2 \in AltTexts}

\* max_variants: None (the default), or a limit of one record
Limits == {None, [n |-> 1]}

\* max_variants: a limit of 1..MaxLimit records
PositiveLimits == {[n |-> k] : k \in 1..MaxLimit}

\* a record of eleven fields with the given POS and QUAL fields
RecordAt(pos, qual) ==
  Join(<<<<"c", "h", "r", "1">>, pos, Dot, <<"A">>, <<"G">>, qual,
         <<"P", "A", "S", "S">>, Dot, <<"G", "T">>, <<"0", "/", "1">>,
         <<"1", "/", "1">>>>, TAB) \o <<NL>>

\* a record whose POS field is no integer
LineBadPos == RecordAt(<<"a", "b", "c">>, <<"3", "0">>)

\* a record whose QUAL field is neither '.' nor a number
LineBadQual == RecordAt(<<"1", "0", "0">>, <<"h", "i", "g", "h">>)

\* records that parse, short records and records with a POS or QUAL field
\* that is no number
HostileLines == {LineSnp, LineSnpAgain, LineShort, LineBadPos, LineBadQual}

\* files with and without the '#CHROM' line
HostileFiles ==
  {hdr \o data : hdr \in {HeaderLines, <<LineMeta>>},
                 data \in SeqsUpTo(HostileLines, MaxLines)}

\* a record of chr1 with the given POS, REF, ALT and INFO fields and the
\* genotype columns 0/1 and 1/1
RecordOf(pos, ref, alt, info) ==
  Join(<<<<"c", "h", "r", "1">>, pos, Dot, ref, alt, <<"3", "0">>,
         <<"P", "A", "S", "S">>, info, <<"G", "T">>, <<"0", "/", "1">>,
         <<"1", "/", "1">>>>, TAB) \o <<NL>>

\* an allele of n bases
LongAllele(n) == [i \in 1..n |-> "A"]

\* POS fields: a position, zero and a negative number
PosTexts == {<<"1", "0", "0">>, <<"0">>, <<"-", "5">>}

\* REF fields: empty, one and two bases, and the two lengths that with
\* chr1, position 100 and a one-base alt allele bring the key text to
\* KeyMaxLen and to KeyMaxLen + 1 characters
FieldRefs == {<<>>, <<"A">>, <<"A", "T">>, LongAllele(KeyMaxLen - 11),
              LongAllele(KeyMaxLen - 10)}

\* ALT fields: none, a substitution, the ref allele itself, two alleles of
\* which one has another length than a one-base ref, and a two-base allele
FieldAlts == {Dot, <<"G">>, <<"A">>, <<"G", ",", "A", "T">>, <<"A", "T">>}

FieldFiles ==
  {<<LineHeader, RecordOf(p, r, a, Dot)>> : p \in PosTexts, r \in FieldRefs, a \in FieldAlts}

\* INFO fields: the AF and ANN keys as bare flags, with values that convert
\* and with values that do not, and another flag
InfoTexts == {<<"A", "F">>, <<"A", "F", "=", "a", "b", "c">>,
              <<"A", "F", "=", "0", ".", "5">>, <<"A", "N", "N">>,
              <<"A", "N", "N", "=", "x">>, <<"A", "N", "N", "=", "a", "|", "b">>,
              <<"D", "B">>}

InfoFiles ==
  {<<LineHeader>> \o data :
     data \in SeqsUpTo({RecordOf(<<"1", "0", "0">>, <<"A">>, <<"G">>, t) : t \in InfoTexts},
                       MaxBatch)}

\* the column header line with the sample S1 alone
LineHeaderOne == SubSeq(LineHeader, 1, Len(LineHeader) - 4) \o <<NL>>

\* sample columns: a plain genotype, a genotype followed by other subfields
\* and a column whose first subfield is empty
ColumnTexts == {<<"0", "/", "1">>, <<"1", "|", "1", ":", "9", ":", "x">>, <<":", "5">>}

\* what follows the INFO field: nothing, or the FORMAT field and 0..3 sample
\* columns
ColumnTails == {<<>>} \cup {<<<<"G", "T">>>> \o c : c \in SeqsUpTo(ColumnTexts, 3)}

\* a record of chr1:100 with the given fields after the INFO field
RecordWith(tail) ==
  Join(<<<<"c", "h", "r", "1">>, <<"1", "0", "0">>, Dot, <<"A">>, <<"G">>, <<"3", "0">>,
         <<"P", "A", "S", "S">>, Dot>> \o tail, TAB) \o <<NL>>

ColumnFiles ==
  {<<h, RecordWith(t)>> : h \in {LineHeader, LineHeaderOne}, t \in ColumnTails}

\* files of records with called and missing genotypes
CountFiles ==
  {<<LineHeader>> \o data : data \in SeqsUpTo({LineSnp, LineSnpAgain}, MaxBatch)}

\* files of records that parse
StoreFiles == {HeaderLines \o data : data \in SeqsUpTo({LineSnp, LineIndel}, MaxLines)}

(***************************************************************************)
(* Specifications                                                          *)
(***************************************************************************)
\* a new VCFProcessor over an empty store that holds the Germplasm nodes
InitWith(files, sizes, limits, germs, faults) ==
  /\ file \in files
  /\ batch_size \in sizes
  /\ max_variants \in limits
  /\ germplasm \in germs
  /\ faulty \in faults
  /\ pc = "idle"
  /\ run_no = 0
  /\ samples = <<>>
  /\ line_num = 0
  /\ variant_batch = <<>>
  /\ stats = ProcessingStats
  /\ store_nodes = <<>>
  /\ store_edges = <<>>
  /\ flush_log = <<>>
  /\ store_log = <<>>
  /\ first_store = None
  /\ stop_requested = FALSE

\* the store is available and holds the Germplasm node of every sample
Init == InitWith(Files, 1..MaxBatch, Limits, {{S1, S2}}, {FALSE})

Spec == Init /\ [][Next]_vars

\* one record whose first genotype column ranges over Genotypes
InitGenotype == InitWith(GenotypeFiles, {1}, {None}, {{S1, S2}}, {FALSE})

SpecGenotype == InitGenotype /\ [][Next]_vars

\* two records at one locus whose alleles range over RefTexts and AltTexts
InitAlleles == InitWith(AlleleFiles, {1, 2}, {None}, {{S1, S2}}, {FALSE})

SpecAlleles == InitAlleles /\ [][Next]_vars

\* files with or without header line, with records whose POS or QUAL field
\* is no number
InitHostile == InitWith(HostileFiles, 1..MaxBatch, {None}, {{S1, S2}}, {FALSE})

SpecHostile == InitHostile /\ [][Next]_vars

\* session.run may raise, and the store may lack the Germplasm node of S2
InitStore == InitWith(StoreFiles, 1..MaxBatch, {None}, {{S1, S2}, {S1}}, {TRUE})

SpecStore == InitStore /\ [][Next]_vars

\* a record limit of 1..MaxLimit
InitLimit == InitWith(Files, 1..MaxBatch, PositiveLimits, {{S1, S2}}, {FALSE})

SpecLimit == InitLimit /\ [][Next]_vars

\* one record whose POS, REF and ALT fields range over PosTexts, FieldRefs
\* and FieldAlts
InitFields == InitWith(FieldFiles, {1}, {None}, {{S1, S2}}, {FALSE})

SpecFields == InitFields /\ [][Next]_vars

\* records whose INFO field ranges over InfoTexts
InitInfo == InitWith(InfoFiles, 1..MaxBatch, {None}, {{S1, S2}}, {FALSE})

SpecInfo == InitInfo /\ [][Next]_vars

\* one record of 8 to 12 fields under a header of one or two samples
InitColumns == InitWith(ColumnFiles, {1}, {None}, {{S1, S2}}, {FALSE})

SpecColumns == InitColumns /\ [][Next]_vars

\* max_variants is None or 0
InitZero == InitWith(Files, 1..MaxBatch, {None, [n |-> 0]}, {{S1, S2}}, {FALSE})

SpecZero == InitZero /\ [][Next]_vars

\* a store that may fail, with one of the two samples of the header as a
\* Germplasm node
InitCount == InitWith(CountFiles, 1..MaxBatch, {None}, {{S1}}, {TRUE})

SpecCount == InitCount /\ [][Next]_vars

\* the caller may ask a running call to stop
InitCancel == InitWith(Files, 1..MaxBatch, {None}, {{S1, S2}}, {FALSE})

SpecCancel == InitCancel /\ [][NextWithStop]_vars

(***************************************************************************)
(* What the input and the histories say, read off without the parser       *)
(***************************************************************************)
\* the lines the loop does not pass over as comments
DataLineIdx == {i \in 1..Len(file) : file[i][1] # "#"}

\* number of tab characters of a line
TabCount(line) == Cardinality({j \in 1..Len(line) : line[j] = TAB})

\* the data lines of fewer than 8 tab-separated fields
ShortLineIdx == {i \in DataLineIdx : TabCount(file[i]) < 7}

\* the flushes of the current run
RunFlushes == SelectSeq(flush_log, LAMBDA e : e.run = run_no)

\* the rows of every query of kind op that the store has executed, in order
LoggedRows(op) ==
  LET RECURSIVE F(_, _)
      F(i, acc) == IF i > Len(store_log) THEN acc
                   ELSE IF store_log[i].op = op /\ store_log[i].ok
                        THEN F(i + 1, acc \o store_log[i].rows)
                        ELSE F(i + 1, acc)
  IN F(1, <<>>)

\* the records handed to _process_and_insert_batch, in order
FlushedVariants ==
  LET RECURSIVE F(_, _)
      F(i, acc) == IF i > Len(flush_log) THEN acc
                   ELSE F(i + 1, acc \o flush_log[i].variants)
  IN F(1, <<>>)

\* the last element of rows that satisfies Test
LastIdx(rows, Test(_)) ==
  CHOOSE i \in 1..Len(rows) :
    Test(rows[i]) /\ \A j \in (i + 1)..Len(rows) : ~Test(rows[j])

\* the text of column k of a line: the characters that follow k - 1 tabs
Column(line, k) ==
  LET idx == {j \in 1..Len(line) :
                /\ line[j] \notin {TAB, NL}
                /\ Cardinality({t \in 1..(j - 1) : line[t] = TAB}) = k - 1}
  IN IF idx = {} THEN <<>>
     ELSE SubSeq(line, CHOOSE i \in idx : \A j \in idx : i <= j,
                 CHOOSE i \in idx : \A j \in idx : j <= i)

\* the genotype text of the first sample in the last line of the file
FirstGenotype == Column(file[Len(file)], 10)

IsSeparator(c) == c \in {"/", "|"}

\* digits and separators only, a digit at both ends and after a separator
OnlyNumericTokens(g) ==
  /\ Len(g) > 0
  /\ \A i \in 1..Len(g) : IsDigitChar(g[i]) \/ IsSeparator(g[i])
  /\ IsDigitChar(g[1])
  /\ IsDigitChar(g[Len(g)])
  /\ \A i \in 2..Len(g) : IsSeparator(g[i]) => IsDigitChar(g[i - 1])

\* the positions at which an allele token starts
TokenStarts(g) == {1} \cup {i \in 2..(Len(g) + 1) : IsSeparator(g[i - 1])}

\* the token that starts at i is not a number: it is empty or holds a
\* character that is no digit
NonNumericAt(g, i) ==
  \/ i > Len(g)
  \/ IsSeparator(g[i])
  \/ \E j \in i..Len(g) :
       /\ ~IsDigitChar(g[j])
       /\ \A m \in i..j : ~IsSeparator(g[m])

\* the token that starts at i holds a digit other than 0
PositiveAt(g, i) ==
  \E j \in i..Len(g) :
    /\ g[j] \notin {"0"}
    /\ \A m \in i..j : IsDigitChar(g[m])

\* the relationship rows sent to the store for sample s
SampleRows(s) == SelectSeq(LoggedRows("edges"), LAMBDA r : r.from_id = s)

SnpKey == <<"c", "h", "r", "1", "_", "1", "0", "0", "_", "A", "_", "G">>

ScenarioFile == HeaderLines \o <<LineSnp>>

(***************************************************************************)
(* Claims                                                                  *)
(***************************************************************************)
\* C1: running process_vcf_file a second time on the same file leaves the
\* store with the same Variant nodes and HAS_VARIANT relationships, same
\* properties and same counts, as the first run left; and sending the rows
\* of the latest node or relationship query again leaves the store as it is.
C1_IdempotentReingestion ==
  /\ (pc = "done" /\ run_no >= 2 /\ first_store # None) =>
       /\ store_nodes = first_store.nodes
       /\ store_edges = first_store.edges
  /\ \A i \in 1..Len(store_log) :
       (store_log[i].flush = Len(flush_log) /\ store_log[i].ok) =>
         IF store_log[i].op = "nodes"
         THEN batch_insert_variants(store_nodes, store_log[i].rows, TRUE) = store_nodes
         ELSE batch_insert_genotype_relationships(
                store_edges, store_nodes, germplasm, store_log[i].rows, TRUE)
              = store_edges

C1_Witness ==
  /\ pc = "done"
  /\ run_no = 2
  /\ first_store # None
  /\ Len(store_nodes) >= 2
  /\ Len(store_edges) >= 2
  /\ Len(LoggedRows("nodes")) > Len(store_nodes)

\* C2: the store never holds two Variant nodes with one variant_id nor two
\* HAS_VARIANT relationships between one sample and one variant, and a node
\* or relationship carries the properties of the last row written for it.
C2_StoreUniqueness ==
  /\ \A i, j \in 1..Len(store_nodes) :
       store_nodes[i].variant_id = store_nodes[j].variant_id => i = j
  /\ \A i, j \in 1..Len(store_edges) :
       (store_edges[i].from = store_edges[j].from /\ store_edges[i].to = store_edges[j].to)
         => i = j
  /\ \A i \in 1..Len(store_nodes) :
       LET rows == LoggedRows("nodes")
           Same(r) == r.variant_id = store_nodes[i].variant_id
       IN store_nodes[i] = rows[LastIdx(rows, Same)]
  /\ \A i \in 1..Len(store_edges) :
       LET rows == LoggedRows("edges")
           e == store_edges[i]
           Same(r) == r.from_id = e.from /\ r.to_id = store_nodes[e.to].variant_id
           last == rows[LastIdx(rows, Same)]
       IN /\ e.genotype = last.genotype
          /\ e.dosage = last.dosage
          /\ e.quality_score = last.quality_score

C2_Witness ==
  /\ Len(store_nodes) = 1
  /\ Len(store_edges) = 2
  /\ \E i, j \in 1..Len(LoggedRows("nodes")) :
       /\ i < j
       /\ LoggedRows("nodes")[i].variant_id = LoggedRows("nodes")[j].variant_id
       /\ LoggedRows("nodes")[i] # LoggedRows("nodes")[j]
       /\ store_nodes[1] = LoggedRows("nodes")[j]
  /\ \E i, j \in 1..Len(LoggedRows("edges")) :
       /\ i < j
       /\ LoggedRows("edges")[i].from_id = LoggedRows("edges")[j].from_id
       /\ LoggedRows("edges")[i].to_id = LoggedRows("edges")[j].to_id
       /\ LoggedRows("edges")[i].genotype # LoggedRows("edges")[j].genotype

\* C3: records of one chromosome and position with different (ref allele,
\* alt allele list) get different variant_id keys, unless both have no alt
\* allele; records with the same chromosome, position, ref and alts get the
\* same key.
C3_KeysInjectivePerLocus ==
  LET variants == FlushedVariants
      key == [i \in 1..Len(LoggedRows("nodes")) |-> LoggedRows("nodes")[i].variant_id]
  IN \A i, j \in 1..Len(variants) :
       (variants[i].chromosome = variants[j].chromosome
          /\ variants[i].position = variants[j].position) =>
         IF variants[i].ref_allele = variants[j].ref_allele
              /\ variants[i].alt_alleles = variants[j].alt_alleles
         THEN key[i] = key[j]
         ELSE \/ key[i] # key[j]
              \/ variants[i].alt_alleles = <<>> /\ variants[j].alt_alleles = <<>>

\* C4: a genotype of numeric tokens separated by '/' or '|' gives one
\* relationship for its sample, and the dosage of that relationship is the
\* number of tokens greater than zero, whatever the number of tokens.
C4_DosageCountsPositiveTokens ==
  (pc = "done" /\ OnlyNumericTokens(FirstGenotype)) =>
    /\ Len(SampleRows(S1)) = run_no
    /\ \A k \in 1..Len(SampleRows(S1)) :
         /\ SampleRows(S1)[k].genotype = FirstGenotype
         /\ SampleRows(S1)[k].dosage =
              Cardinality({i \in TokenStarts(FirstGenotype) :
                             PositiveAt(FirstGenotype, i)})
    /\ \E i \in 1..Len(store_edges) :
         /\ store_edges[i].from = S1
         /\ store_edges[i].dosage =
              Cardinality({i2 \in TokenStarts(FirstGenotype) :
                             PositiveAt(FirstGenotype, i2)})

C4_Witness ==
  /\ pc = "done"
  /\ FirstGenotype = <<"1", "/", "1", "/", "1">>
  /\ Len(SampleRows(S1)) = 1
  /\ SampleRows(S1)[1].dosage = 3

\* C5: a genotype with a token that is not a number gives no relationship
\* for its sample.
C5_NonNumericTokenInvalid ==
  (\E i \in TokenStarts(FirstGenotype) : NonNumericAt(FirstGenotype, i)) =>
    SampleRows(S1) = <<>>

\* C6: no relationship row carries the genotype '.', './.' or '.|.'.
C6_MissingGenotypesSkipped ==
  \A i \in 1..Len(LoggedRows("edges")) :
    LoggedRows("edges")[i].genotype
      \notin {<<".">>, <<".", "/", ".">>, <<".", "|", ".">>}

\* C7: a run without record limit over N data lines, M of them of fewer
\* than 8 tab-separated fields and the others well-formed, does not abort
\* and returns with processed_variants = N - M and skipped_variants = M.
C7_MalformedResilience ==
  /\ pc # "failed"
  /\ (pc = "done" /\ max_variants = None) =>
       /\ stats.processed_variants = Cardinality(DataLineIdx) - Cardinality(ShortLineIdx)
       /\ stats.skipped_variants = Cardinality(ShortLineIdx)

C7_Witness ==
  /\ pc = "done"
  /\ max_variants = None
  /\ Cardinality(ShortLineIdx) = 2
  /\ Cardinality(DataLineIdx) = 3
  /\ stats.skipped_variants = 2
  /\ stats.processed_variants = 1

\* C8: a run without record limit over N accepted records performs
\* ceil(N / batch_size) flushes, none empty, every one but the last of
\* exactly batch_size records and the last of at most batch_size.
C8_FlushCount ==
  (pc = "done" /\ max_variants = None) =>
    LET n == Cardinality(DataLineIdx \ ShortLineIdx)
        f == RunFlushes
    IN /\ Len(f) = (n + batch_size - 1) \div batch_size
       /\ \A k \in 1..Len(f) :
            /\ Len(f[k].variants) >= 1
            /\ Len(f[k].variants) <= batch_size
            /\ k < Len(f) => Len(f[k].variants) = batch_size

C8_Witness ==
  /\ pc = "done"
  /\ max_variants = None
  /\ batch_size = 2
  /\ Cardinality(DataLineIdx \ ShortLineIdx) = 3
  /\ Len(RunFlushes) = 2
  /\ Len(RunFlushes[2].variants) = 1

\* C9: a relationship query directly follows the node query of the same
\* flush, which has returned, and every relationship row refers to the
\* variant_id of a node row of that query, a node the store holds when the
\* relationship query is sent.
C9_NodesBeforeEdges ==
  \A i \in 1..Len(store_log) :
    store_log[i].op = "edges" =>
      /\ i > 1
      /\ store_log[i - 1].op = "nodes"
      /\ store_log[i - 1].flush = store_log[i].flush
      /\ store_log[i - 1].ok
      /\ \A k \in 1..Len(store_log[i].rows) :
           /\ store_log[i].rows[k].to_id \in store_log[i].present
           /\ \E m \in 1..Len(store_log[i - 1].rows) :
                store_log[i - 1].rows[m].variant_id = store_log[i].rows[k].to_id

C9_Witness ==
  \E i \in 1..Len(store_log) :
    /\ store_log[i].op = "edges"
    /\ Len(store_log[i].rows) >= 3
    /\ store_log[i].rows[1].to_id \notin store_log[i - 1].present

\* C10: header samples S1 and S2, both in the store, and the one data line
\* chr1 100 . A G 30 PASS . GT 0/1 1/1 give one Variant node, variant_id
\* chr1_100_A_G and variant_type SNP, and the two relationships
\* (S1, chr1_100_A_G, dosage 1) and (S2, chr1_100_A_G, dosage 2).
C10_EndToEndScenario ==
  (pc = "done" /\ file = ScenarioFile) =>
    /\ Len(store_nodes) = 1
    /\ store_nodes[1].variant_id = SnpKey
    /\ store_nodes[1].variant_type = "SNP"
    /\ Len(store_edges) = 2
    /\ {<<store_edges[i].from, store_nodes[store_edges[i].to].variant_id,
          store_edges[i].dosage>> : i \in 1..Len(store_edges)}
         = {<<S1, SnpKey, 1>>, <<S2, SnpKey, 2>>}

C10_Witness ==
  /\ pc = "done"
  /\ run_no = 1
  /\ file = ScenarioFile
  /\ {S1, S2} \subseteq germplasm
  /\ Len(store_edges) = 2

\* the data lines whose ALT field is '.'
NoAltLineIdx == {i \in DataLineIdx : Column(file[i], 5) = Dot}

\* C11: when the ALT field of every record of the file is '.', no
\* relationship row with a dosage greater than zero is generated, and the
\* store holds no relationship with a dosage greater than zero.
C11_MissingAltNoPositiveDosage ==
  (DataLineIdx # {} /\ NoAltLineIdx = DataLineIdx) =>
    /\ \A i \in 1..Len(LoggedRows("edges")) : LoggedRows("edges")[i].dosage = 0
    /\ \A i \in 1..Len(store_edges) : store_edges[i].dosage = 0

\* the file holds no line that starts with '#CHROM'
NoHeaderLine ==
  \A i \in 1..Len(file) : SubSeq(file[i], 1, 6) # <<"#", "C", "H", "R", "O", "M">>

\* C12: a run over a file of data lines without '#CHROM' line fails before
\* any data line is parsed, counted or written: it does not return normally,
\* it counts no record as accepted or skipped, and it sends nothing to the
\* store.
C12_HeaderFailureFatal ==
  (NoHeaderLine /\ DataLineIdx # {}) =>
    /\ pc # "done"
    /\ stats.total_variants = 0
    /\ stats.skipped_variants = 0
    /\ flush_log = <<>>
    /\ store_nodes = <<>>

\* text of decimal digits after an optional sign
IsIntegerText(t) ==
  /\ Len(t) > 0
  /\ \E k \in 1..Len(t) : IsDigitChar(t[k])
  /\ \A k \in 1..Len(t) : IsDigitChar(t[k]) \/ (k = 1 /\ t[k] \in {"-", "+"})

\* text of decimal digits with at most one '.', after an optional sign
IsNumberText(t) ==
  /\ Len(t) > 0
  /\ \E k \in 1..Len(t) : IsDigitChar(t[k])
  /\ \A k \in 1..Len(t) :
       IsDigitChar(t[k]) \/ t[k] = "." \/ (k = 1 /\ t[k] \in {"-", "+"})
  /\ Cardinality({k \in 1..Len(t) : t[k] = "."}) <= 1

\* the data lines of 8 or more fields whose POS field is no integer
BadPosLineIdx ==
  {i \in DataLineIdx \ ShortLineIdx : ~IsIntegerText(Column(file[i], 2))}

\* the data lines of 8 or more fields whose QUAL field is no number
NoQualLineIdx ==
  {i \in DataLineIdx \ ShortLineIdx : ~IsNumberText(Column(file[i], 6))}

\* the data lines of 8 or more fields whose QUAL field is no number and not
\* the missing marker '.'
BadQualLineIdx == {i \in NoQualLineIdx : Column(file[i], 6) # Dot}

\* the records handed to _process_and_insert_batch in the current run
RunVariants ==
  LET RECURSIVE F(_, _)
      F(i, acc) == IF i > Len(RunFlushes) THEN acc
                   ELSE F(i + 1, acc \o RunFlushes[i].variants)
  IN F(1, <<>>)

\* C13: with a header line and every QUAL field a number or '.', no data
\* line makes the run fail, whether it has fewer than 8 fields or a POS
\* field that is no integer: the run returns with every data line counted
\* as accepted or skipped, and those lines counted as skipped.
C13_MalformedRecordNeverFatal ==
  (~NoHeaderLine /\ BadQualLineIdx = {}) =>
    /\ pc # "failed"
    /\ pc = "done" =>
         /\ stats.total_variants + stats.skipped_variants = Cardinality(DataLineIdx)
         /\ stats.skipped_variants >= Cardinality(ShortLineIdx \cup BadPosLineIdx)

\* C14: with a header line and every POS field an integer, a record whose
\* QUAL field is '.' or another text that is no number does not make the run
\* fail and is not skipped: the run returns with every record of 8 or more
\* fields accepted and handed to a flush, quality None for exactly those
\* whose QUAL field is no number.
C14_QualitySalvage ==
  (~NoHeaderLine /\ BadPosLineIdx = {}) =>
    /\ pc # "failed"
    /\ pc = "done" =>
         /\ stats.total_variants = Cardinality(DataLineIdx \ ShortLineIdx)
         /\ stats.skipped_variants = Cardinality(ShortLineIdx)
         /\ Cardinality({k \in 1..Len(RunVariants) : RunVariants[k].quality = None})
              = Cardinality(NoQualLineIdx)

\* the flushes during which session.run raised
FailedFlushIdx ==
  {i \in 1..Len(flush_log) : flush_log[i].outcome \in {"raise_nodes", "edges_failed"}}

\* C15: a flush during which the node query or the relationship query failed
\* is the last flush of its run, which then has ended by the failure, or it
\* is followed in its run by a flush of the same batch; the run does not go
\* on to another batch and does not return normally after it.
C15_FailedWriteSurfaced ==
  \A i \in FailedFlushIdx :
    \/ /\ i < Len(flush_log)
       /\ flush_log[i + 1].run = flush_log[i].run
       /\ flush_log[i + 1].variants = flush_log[i].variants
    \/ /\ \A j \in (i + 1)..Len(flush_log) : flush_log[j].run # flush_log[i].run
       /\ flush_log[i].run = run_no => pc = "failed"

\* the relationship rows the store has executed in the current run
RunEdgeRows ==
  LET RECURSIVE F(_, _)
      F(i, acc) ==
        IF i > Len(store_log) THEN acc
        ELSE IF /\ store_log[i].op = "edges"
                /\ store_log[i].ok
                /\ flush_log[store_log[i].flush].run = run_no
             THEN F(i + 1, acc \o store_log[i].rows)
             ELSE F(i + 1, acc)
  IN F(1, <<>>)

\* C16: when no query fails, a relationship row whose sample has no
\* Germplasm node writes nothing, every row whose sample has one is written,
\* and the run returns with total_genotypes, its count of relationships,
\* equal to the number of rows written, the rows of absent samples left out.
C16_UnresolvedSampleSoftFailure ==
  (pc = "done" /\ \A i \in 1..Len(flush_log) : flush_log[i].outcome = "ok") =>
    /\ \A i \in 1..Len(store_edges) : store_edges[i].from \in germplasm
    /\ \A k \in 1..Len(RunEdgeRows) :
         RunEdgeRows[k].from_id \in germplasm =>
           \E i \in 1..Len(store_edges) :
             /\ store_edges[i].from = RunEdgeRows[k].from_id
             /\ store_nodes[store_edges[i].to].variant_id = RunEdgeRows[k].to_id
    /\ stats.total_genotypes =
         Cardinality({k \in 1..Len(RunEdgeRows) : RunEdgeRows[k].from_id \in germplasm})

\* the data lines of 8 or more fields among the first n lines
AcceptedUpTo(n) == {i \in DataLineIdx \ ShortLineIdx : i <= n}

\* C17: with a record limit M >= 1 the loop never accepts more than M
\* records and goes on only while fewer than M are accepted; when the limit
\* stops it, the records not yet flushed are flushed before the run returns;
\* the run returns with total_variants = processed_variants = min(M, number
\* of records of 8 or more fields), the line that reached the limit being
\* the last line read, and only records read up to it handed to a flush.
C17_RecordLimit ==
  LET m == max_variants.n
      n == Cardinality(DataLineIdx \ ShortLineIdx)
  IN /\ stats.total_variants <= m
     /\ stats.total_variants = Cardinality(AcceptedUpTo(line_num))
     /\ pc = "streaming" => stats.total_variants < m
     /\ pc = "draining" =>
          /\ stats.total_variants = m
          /\ line_num \in AcceptedUpTo(line_num)
          /\ stats.processed_variants + Len(variant_batch) = m
     /\ pc = "done" =>
          /\ stats.total_variants = IF m < n THEN m ELSE n
          /\ stats.processed_variants = stats.total_variants
          /\ Len(RunVariants) = stats.total_variants
          /\ variant_batch = <<>>
          /\ n >= m => line_num \in AcceptedUpTo(line_num)
          /\ n < m => line_num = Len(file)

C17_Witness ==
  /\ pc = "done"
  /\ max_variants = [n |-> 1]
  /\ batch_size = 2
  /\ Cardinality(DataLineIdx \ ShortLineIdx) = 3
  /\ line_num < Len(file)
  /\ Len(RunFlushes) = 1
  /\ Len(RunFlushes[1].variants) = 1
  /\ Len(store_nodes) = 1

\* C18: with an available store and no record limit a run does not end
\* otherwise than by returning; when it has returned, every line was read,
\* the buffer is empty, processed_variants = total_variants, every accepted
\* record was handed to a flush, and the records left over after the last
\* full batch went to a last flush of their own.
C18_DrainingThenCompleted ==
  /\ pc # "failed"
  /\ pc = "done" =>
       /\ line_num = Len(file)
       /\ variant_batch = <<>>
       /\ stats.processed_variants = stats.total_variants
       /\ Len(RunVariants) = stats.total_variants
       /\ stats.total_variants % batch_size # 0 =>
            Len(RunFlushes[Len(RunFlushes)].variants) = stats.total_variants % batch_size

\* C19: whatever the number of earlier calls on the same VCFProcessor, the
\* statistics count the records of the current call only: they are zero
\* when the loop starts, and at every line they equal the numbers of data
\* lines of 8 or more fields and of fewer fields read so far in this call,
\* of records flushed in this call and of relationship rows of this call.
C19_StatsPerRun ==
  /\ (pc = "streaming" /\ line_num = 0) =>
       /\ stats.total_variants = 0
       /\ stats.processed_variants = 0
       /\ stats.skipped_variants = 0
       /\ stats.total_genotypes = 0
       /\ stats.processing_time = 0
  /\ stats.total_variants = Cardinality(AcceptedUpTo(line_num))
  /\ stats.skipped_variants = Cardinality({i \in ShortLineIdx : i <= line_num})
  /\ stats.processed_variants = Len(RunVariants)
  /\ stats.total_genotypes = Len(RunEdgeRows)

C19_Witness ==
  /\ run_no = 2
  /\ pc = "done"
  /\ stats.processed_variants = 2
  /\ stats.skipped_variants = 1
  /\ stats.total_genotypes >= 2
  /\ Len(FlushedVariants) = 4
  /\ first_store # None

\* number of records of the flushes of the current run whose node query
\* returned
CommittedRecords ==
  LET RECURSIVE F(_, _)
      F(i, acc) ==
        IF i > Len(RunFlushes) THEN acc
        ELSE IF RunFlushes[i].outcome \in {"ok", "edges_failed"}
             THEN F(i + 1, acc + Len(RunFlushes[i].variants))
             ELSE F(i + 1, acc)
  IN F(1, 0)

\* the current run has ended by an exception of the node query
StoreAborted ==
  /\ pc = "failed"
  /\ RunFlushes # <<>>
  /\ RunFlushes[Len(RunFlushes)].outcome = "raise_nodes"

\* C20: a run that a store error has ended after some batch was written
\* hands its statistics to its caller, with processed_variants the number of records of the batches
\* written before the failure and skipped_variants the number of records
\* skipped before it.
C20_CountsSurviveStoreFailure ==
  (StoreAborted /\ CommittedRecords > 0) =>
    /\ Returned # None
    /\ Returned.processed_variants = CommittedRecords
    /\ Returned.skipped_variants = Cardinality({i \in ShortLineIdx : i <= line_num})

\* C21: once the caller has asked the streaming call to stop, no further
\* record is parsed, neither accepted nor skipped, and the records the call
\* holds stay as they are until they are flushed whole or dropped whole.
C21_CooperativeCancellation ==
  [][(stop_requested /\ pc = "streaming") =>
       /\ stats.total_variants' = stats.total_variants
       /\ stats.skipped_variants' = stats.skipped_variants
       /\ \/ variant_batch' = variant_batch
          \/ variant_batch' = <<>>]_vars

\* the positions of store_log that hold a query of flush f
QueriesOf(f) == {i \in 1..Len(store_log) : store_log[i].flush = f}

\* C22: between any two steps no flush is in flight: the queries of the
\* store come flush after flush, at most one node query and after it at most
\* one relationship query for each; every flush that returned has sent its
\* node query, left its nodes in the store and added its records to
\* processed_variants before the next line is read or the next flush starts.
C22_SerializedFlushes ==
  /\ \A i, j \in 1..Len(store_log) :
       i < j => store_log[i].flush <= store_log[j].flush
  /\ \A f \in 1..Len(flush_log) :
       /\ Cardinality(QueriesOf(f)) <= 2
       /\ \A i \in QueriesOf(f) :
            store_log[i].op = "nodes" <=> \A j \in QueriesOf(f) : i <= j
       /\ flush_log[f].outcome = "ok" =>
            /\ \E i \in QueriesOf(f) :
                 /\ store_log[i].op = "nodes"
                 /\ Len(store_log[i].rows) = Len(flush_log[f].variants)
                 /\ \A k \in 1..Len(store_log[i].rows) :
                      store_log[i].rows[k].variant_id \in VariantIds(store_nodes)
  /\ stats.processed_variants = CommittedRecords

C22_Witness ==
  /\ pc = "streaming"
  /\ Len(RunFlushes) = 2
  /\ Len(store_log) = 4
  /\ store_log[1].rows[1].variant_id = store_log[3].rows[1].variant_id
  /\ Len(store_nodes) = 1

\* C23: every record handed to a flush has position >= 1, a ref allele that
\* is not empty and no alt allele equal to its ref allele.
C23_VariantRecordInvariant ==
  \A k \in 1..Len(FlushedVariants) :
    LET v == FlushedVariants[k]
    IN /\ v.position >= 1
       /\ v.ref_allele # <<>>
       /\ \A a \in 1..Len(v.alt_alleles) : v.alt_alleles[a] # v.ref_allele

\* C24: whatever the INFO fields of the records, no flush and no run fails:
\* the run returns with every record of 8 or more fields flushed and its
\* node in the store.
C24_AnnotationErrorsNeverUnwind ==
  /\ pc # "failed"
  /\ \A f \in 1..Len(flush_log) : flush_log[f].outcome = "ok"
  /\ pc = "done" =>
       /\ stats.processed_variants = Cardinality(DataLineIdx \ ShortLineIdx)
       /\ Cardinality(DataLineIdx \ ShortLineIdx) > 0 => Len(store_nodes) > 0

\* the node rows the store has executed in the current run
RunNodeRows ==
  LET RECURSIVE F(_, _)
      F(i, acc) ==
        IF i > Len(store_log) THEN acc
        ELSE IF /\ store_log[i].op = "nodes"
                /\ store_log[i].ok
                /\ flush_log[store_log[i].flush].run = run_no
             THEN F(i + 1, acc \o store_log[i].rows)
             ELSE F(i + 1, acc)
  IN F(1, <<>>)

\* the k-th data line of 8 or more fields
AcceptedLine(k) ==
  file[CHOOSE i \in DataLineIdx \ ShortLineIdx : Cardinality(AcceptedUpTo(i)) = k]

\* the record or node row r was made from the text of line
MadeFrom(r, line) ==
  /\ r.chromosome = Column(line, 1)
  /\ r.ref_allele = Column(line, 4)
  /\ r.filter_status = Column(line, 7)

\* number of genotypes of a record that are not '', '.' or './.'
CalledCount(v) ==
  Cardinality({g \in 1..Len(v.genotypes) :
                 v.genotypes[g].v \notin {<<>>, <<".">>, <<".", "/", ".">>}})

\* C25: the node rows sent in the current run, followed by the records in
\* the buffer, are the accepted lines read so far, each once and in the
\* order of the file; the buffer holds the records accepted since the last
\* flush, fewer than batch_size, and none when the run has returned; and the
\* relationship rows of a flush are those of the records of its node rows.
C25_BatchesPartitionRecords ==
  /\ Len(RunNodeRows) + Len(variant_batch) = Cardinality(AcceptedUpTo(line_num))
  /\ \A k \in 1..Len(RunNodeRows) : MadeFrom(RunNodeRows[k], AcceptedLine(k))
  /\ \A k \in 1..Len(variant_batch) :
       MadeFrom(variant_batch[k], AcceptedLine(Len(RunNodeRows) + k))
  /\ Len(variant_batch) < batch_size
  /\ pc \in {"streaming", "draining"} =>
       Len(variant_batch) = Cardinality(AcceptedUpTo(line_num)) % batch_size
  /\ pc = "done" => variant_batch = <<>>
  /\ \A f \in 1..Len(flush_log) :
       LET nodes == {i \in QueriesOf(f) : store_log[i].op = "nodes"}
           edges == {i \in QueriesOf(f) : store_log[i].op = "edges"}
           calls == [k \in 1..Len(flush_log[f].variants) |->
                       CalledCount(flush_log[f].variants[k])]
       IN /\ Cardinality(nodes) = 1
          /\ Cardinality(edges) <= 1
          /\ \A i \in nodes : Len(store_log[i].rows) = Len(flush_log[f].variants)
          /\ \A i \in nodes : \A k \in 1..Len(store_log[i].rows) :
               /\ store_log[i].rows[k].chromosome = flush_log[f].variants[k].chromosome
               /\ store_log[i].rows[k].filter_status = flush_log[f].variants[k].filter_status
               /\ calls[k] > 0 =>
                    \E j \in edges :
                      Cardinality({e \in 1..Len(store_log[j].rows) :
                                     store_log[j].rows[e].to_id
                                       = store_log[i].rows[k].variant_id}) >= calls[k]

C25_Witness ==
  /\ pc = "done"
  /\ batch_size = 2
  /\ max_variants = None
  /\ Len(RunFlushes) = 2
  /\ Len(RunNodeRows) = 3
  /\ RunNodeRows[1].chromosome # RunNodeRows[2].chromosome
  /\ Cardinality(ShortLineIdx) = 0

\* the text chromosome_position_ref_alts of a line whose POS field is a
\* decimal number without leading zeros: the alt alleles joined by '_', or
\* 'REF' when the ALT field is '.'
KeyTextOf(line) ==
  Column(line, 1) \o <<"_">> \o Column(line, 2) \o <<"_">> \o Column(line, 4) \o <<"_">>
    \o (IF Column(line, 5) = Dot THEN <<"R", "E", "F">>
        ELSE [i \in 1..Len(Column(line, 5)) |->
                IF Column(line, 5)[i] = "," THEN "_" ELSE Column(line, 5)[i]])

IsHexChar(c) == IsDigitChar(c) \/ c \in {"a", "b", "c", "d", "e", "f"}

\* C26: building the key of the one record of the file never fails, and
\* every node row sent for it carries the same key of at most 100
\* characters: the text chromosome_position_ref_alts when that text has at
\* most 100 characters, otherwise 'VAR_' followed by 16 hexadecimal digits.
C26_BoundedKeys ==
  /\ pc # "failed"
  /\ \A f \in 1..Len(flush_log) : flush_log[f].outcome = "ok"
  /\ \A k \in 1..Len(LoggedRows("nodes")) :
       LET key == LoggedRows("nodes")[k].variant_id
           text == KeyTextOf(file[Len(file)])
       IN /\ Len(key) <= 100
          /\ Len(text) <= 100 => key = text
          /\ Len(text) > 100 =>
               /\ Len(key) = 20
               /\ SubSeq(key, 1, 4) = <<"V", "A", "R", "_">>
               /\ \A i \in 5..20 : IsHexChar(key[i])
          /\ key = LoggedRows("nodes")[1].variant_id
  /\ Len(store_nodes) <= 1

C26_Witness ==
  /\ pc = "done"
  /\ run_no = 2
  /\ Len(KeyTextOf(file[Len(file)])) = 101
  /\ Len(LoggedRows("nodes")) = 2
  /\ Len(store_nodes) = 1
  /\ SubSeq(store_nodes[1].variant_id, 1, 4) = <<"V", "A", "R", "_">>
  /\ Len(store_edges) = 2

\* the text of a sample column up to its first ':'
FirstSubfield(c) ==
  IF \E i \in 1..Len(c) : c[i] = ":"
  THEN SubSeq(c, 1, (CHOOSE i \in 1..Len(c) : c[i] = ":" /\ \A j \in 1..(i - 1) : c[j] # ":") - 1)
  ELSE c

\* C27: the samples are the header columns from the tenth on; in every record
\* parsed, sample i has a genotype exactly when the line has a column i + 9,
\* the genotype is the text of that column up to its first ':', and the
\* genotype map has no key that is not a header sample and no key twice.
C27_GenotypesByPosition ==
  /\ pc # "failed"
  /\ pc # "idle" =>
       /\ Len(samples) = TabCount(file[1]) - 8
       /\ \A i \in 1..Len(samples) : samples[i] = Column(file[1], i + 9)
  /\ \A f \in 1..Len(flush_log) : \A k \in 1..Len(flush_log[f].variants) :
       LET genotypes == flush_log[f].variants[k].genotypes
           line == file[Len(file)]
       IN /\ \A g \in 1..Len(genotypes) : \E i \in 1..Len(samples) : genotypes[g].k = samples[i]
          /\ \A g, h \in 1..Len(genotypes) : genotypes[g].k = genotypes[h].k => g = h
          /\ \A i \in 1..Len(samples) :
               IF i + 9 <= TabCount(line) + 1
               THEN /\ DictHas(genotypes, samples[i])
                    /\ DictGet(genotypes, samples[i]) = FirstSubfield(Column(line, i + 9))
               ELSE ~DictHas(genotypes, samples[i])

\* a record of ten fields under a header of two samples has been flushed:
\* S1 has the first subfield of its column and S2 has no genotype
C27_Witness ==
  /\ pc = "done"
  /\ Len(samples) = 2
  /\ TabCount(file[Len(file)]) = 9
  /\ Column(file[Len(file)], 10) = <<"1", "|", "1", ":", "9", ":", "x">>
  /\ Len(flush_log) > 0
  /\ flush_log[1].variants[1].genotypes = <<[k |-> S1, v |-> <<"1", "|", "1">>]>>

\* the lengths of the comma-separated parts of an ALT field
PartLengths(alt) ==
  LET starts == {1} \cup {i \in 2..(Len(alt) + 1) : alt[i - 1] = ","}
      ends == {i \in 1..Len(alt) : alt[i] = ","} \cup {Len(alt) + 1}
  IN {(CHOOSE e \in ends : e >= b /\ \A x \in ends : x >= b => e <= x) - b : b \in starts}

\* C28: every node row sent to the store has variant_type 'INDEL' when the
\* ALT field of its line is not '.' and one of its comma-separated alleles
\* has another length than the REF field, and 'SNP' otherwise; no other
\* value occurs and building the node does not fail.
C28_VariantTypeByLength ==
  /\ pc # "failed"
  /\ \A k \in 1..Len(LoggedRows("nodes")) :
       LET row == LoggedRows("nodes")[k]
           ref == Column(file[Len(file)], 4)
           alt == Column(file[Len(file)], 5)
       IN /\ row.variant_type \in {"SNP", "INDEL"}
          /\ row.variant_type = "INDEL" <=>
               (alt # Dot /\ \E n \in PartLengths(alt) : n # Len(ref))

\* a record with ALT '.' and a two-base ref allele is stored as a SNP
C28_Witness ==
  /\ pc = "done"
  /\ Column(file[Len(file)], 5) = Dot
  /\ Len(Column(file[Len(file)], 4)) = 2
  /\ Len(store_nodes) = 1
  /\ store_nodes[1].variant_type = "SNP"
  /\ store_nodes[1].alt_allele = <<>>

\* C29: with max_variants None or 0 alike the loop never stops at a limit:
\* every record of 8 or more fields read so far is counted, and the run
\* returns only after the last line, with every such record of the file
\* counted, flushed to the store and none left in the buffer.
C29_ZeroLimitIsNoLimit ==
  /\ pc \notin {"draining", "failed"}
  /\ stats.total_variants = Cardinality(AcceptedUpTo(line_num))
  /\ pc = "done" =>
       /\ line_num = Len(file)
       /\ stats.total_variants = Cardinality(DataLineIdx \ ShortLineIdx)
       /\ stats.processed_variants = stats.total_variants
       /\ Len(RunNodeRows) = stats.total_variants
       /\ \A k \in 1..Len(RunNodeRows) : MadeFrom(RunNodeRows[k], AcceptedLine(k))
       /\ variant_batch = <<>>

\* a run with max_variants = 0 has returned after three records, flushed in
\* two batches
C29_Witness ==
  /\ pc = "done"
  /\ max_variants = [n |-> 0]
  /\ batch_size = 2
  /\ stats.total_variants = 3
  /\ stats.processed_variants = 3
  /\ Len(RunFlushes) = 2

\* the called genotypes of the records of the flushes of the current run
\* that went past the node query: flush, record and genotype index
RunCalls ==
  {c \in UNION {UNION {{<<f, k, g>> : g \in 1..Len(flush_log[f].variants[k].genotypes)} :
                         k \in 1..Len(flush_log[f].variants)} :
                  f \in 1..Len(flush_log)} :
     /\ flush_log[c[1]].run = run_no
     /\ flush_log[c[1]].outcome \in {"ok", "edges_failed"}
     /\ flush_log[c[1]].variants[c[2]].genotypes[c[3]].v
          \notin {<<>>, <<".">>, <<".", "/", ".">>}}

\* the relationship rows of the current run that a query has written: the
\* query did not fail and the sample of the row is a Germplasm node
RunRowsWritten ==
  {k \in 1..Len(RunEdgeRows) : RunEdgeRows[k].from_id \in germplasm}

\* C30: total_genotypes is the number of called genotypes of the records of
\* the flushes of the run that went past the node query, whether their
\* relationship query failed or not and whether their samples are in the
\* store or not; it is never less than the number of relationship rows the
\* run has written, nor, in the first run, than the number of HAS_VARIANT
\* edges of the store.
C30_GenotypesCountGenerated ==
  /\ stats.total_genotypes = Cardinality(RunCalls)
  /\ stats.total_genotypes >= Cardinality(RunRowsWritten)
  /\ run_no <= 1 => stats.total_genotypes >= Len(store_edges)

\* a run has returned with three calls counted, one relationship query
\* failed and not every sample in the store: fewer edges than counted
C30_Witness ==
  /\ pc = "done"
  /\ run_no = 1
  /\ germplasm = {S1}
  /\ stats.total_genotypes = 3
  /\ \E f \in 1..Len(flush_log) : flush_log[f].outcome = "edges_failed"
  /\ Cardinality(RunRowsWritten) = 1
  /\ Len(store_edges) = 1

====
